---------------------------- MODULE Spec2Model ----------------------------
(***************************************************************************)
(* A model of FirstMaccabees.py: the Roman-numeral formatter, the footnote *)
(* splicing and drop-cap passes of the chapter text pipeline, the template *)
(* compositor and the top-level script.                                    *)
(*                                                                         *)
(* Text is modelled as a sequence of tokens.  A token is a record          *)
(* [k, c, n]: k is the kind of the token (a character, a bracketed marker, *)
(* a LaTeX directive, an anchor, a paragraph), c and n are the numbers it  *)
(* carries.  A regular-expression substitution is modelled by what it does *)
(* on the tokens: re.sub without a count rewrites every non-overlapping    *)
(* match, left to right, and never rescans what it has written.            *)
(*                                                                         *)
(* The replacement strings of the source hold the escapes \l and \e        *)
(* ('\lettrine', '\end{center}').  The model follows the regular           *)
(* expression engine the script was written for (Python 3 up to 3.6),      *)
(* which keeps an unknown escape of a letter as it stands; from Python 3.7 *)
(* on every such re.sub raises re.error before any text is rewritten.      *)
(***************************************************************************)
EXTENDS Integers, Sequences, FiniteSets, TLC

VARIABLES
    num,            \* number_to_roman: the argument
    roman,          \* number_to_roman: the string returned (a sequence of letters)
    rpc,            \* number_to_roman: "call" before the call, "returned" after it
    footnotes,      \* Chapter.footnotes: the chapter's footnote strings, in page order
    fin,            \* add_footnotes_to_text: the paragraph as it was passed
    paragraph,      \* add_footnotes_to_text: the local variable paragraph
    footnotes_found,\* add_footnotes_to_text: list(set(re.findall(...)))
    fi,             \* add_footnotes_to_text: the loop index i, counted from 1
    fpc,            \* add_footnotes_to_text: "call", "loop", "returned" or "IndexError"
    number,         \* Chapter.number of the chapter whose text is extracted
    paragraphs,     \* get_text_from_soup: the local list paragraphs (strings of characters)
    dnorm,          \* get_text_from_soup: the list as it was passed to do_dropcaps
    dpc,            \* get_text_from_soup: "call", "normalized", "dropcapped" or "IndexError"
    pc,             \* __main__: the statement the script is at
    error,          \* __main__: the exception that ended the run ("none" if none)
    number_of_chapters, \* Book.number_of_chapters
    chapters,       \* Book.chapters: [number, latin_pars, english_pars] of each Chapter
    variant,        \* which Chapter method composes: "english" (as __main__ does) or "bilingual"
    template,       \* the template as read_in_latex_template returned it
    output,         \* __main__: output
    ci,             \* __main__: the loop index i of lines 271-272
    bad_status,     \* whether a response with a non-success status has been received
    file            \* the output file: whether it exists, and the text written to it

romanVars == <<num, roman, rpc>>
footVars == <<footnotes, fin, paragraph, footnotes_found, fi, fpc>>

dropVars == <<number, paragraphs, dnorm, dpc>>

mainVars ==
    <<pc, error, number_of_chapters, chapters, variant, template, output, ci,
      bad_status, file>>

vars == <<romanVars, footVars, dropVars, mainVars>>

---------------------------------------------------------------------------
(* Bounds of the model *)

MaxNum == 4100
MaxNeg == 2100
MaxParLen == 3
MaxFootnotes == 2
MaxFirstLen == 6
MaxChapters == 2
MaxPars == 2

---------------------------------------------------------------------------
(* A component that a specification does not exercise stays at rest *)

RomanIdle ==
    /\ num = 1
    /\ roman = <<>>
    /\ rpc = "idle"

FootIdle ==
    /\ footnotes = <<>>
    /\ fin = <<>>
    /\ paragraph = <<>>
    /\ footnotes_found = <<>>
    /\ fi = 1
    /\ fpc = "idle"

DropIdle ==
    /\ number = 1
    /\ paragraphs = <<>>
    /\ dnorm = <<>>
    /\ dpc = "idle"

MainIdle ==
    /\ pc = "idle"
    /\ error = "none"
    /\ number_of_chapters = 0
    /\ chapters = <<>>
    /\ variant = "english"
    /\ template = <<>>
    /\ output = <<>>
    /\ ci = 0
    /\ bad_status = FALSE
    /\ file = [exists |-> FALSE, text |-> <<>>]

---------------------------------------------------------------------------
(* Tokens *)

Tok(kind, ch, nr) == [k |-> kind, c |-> ch, n |-> nr]

Marker(n) == Tok("[n]", 0, n)            \* the bracketed numeral [n]
Text(i)   == Tok("text", 0, i)           \* a run of text without bracket or backslash
Space     == Tok(" ", 0, 0)
FootnoteDirective == Tok("\\\\footnote", 0, 0)   \* the two backslashes and "footnote"
LBrace    == Tok("{", 0, 0)
RBrace    == Tok("}", 0, 0)

IsMarker(t) == t.k = "[n]"

\* The sequences over S of length at most n
SeqUpTo(S, n) == UNION {[1..k -> S] : k \in 0..n}

RECURSIVE Concat(_)
Concat(ss) == IF ss = <<>> THEN <<>> ELSE Head(ss) \o Concat(Tail(ss))

Range(s) == {s[i] : i \in DOMAIN s}

---------------------------------------------------------------------------
(* Chapter.add_footnotes_to_text *)

\* list[idx] of Python: a negative idx counts from the end, and an idx outside
\* -len .. len-1 raises IndexError (ok = FALSE).
ListIndexWrapping(list, idx) ==
    IF list = <<>> THEN [ok |-> FALSE, v |-> <<>>]
    ELSE [ok |-> TRUE, v |-> list[(idx % Len(list)) + 1]]

ListIndex(list, idx) ==
    IF idx >= 0 /\ idx < Len(list) THEN [ok |-> TRUE, v |-> list[idx + 1]]
    ELSE IF idx < 0 /\ 0 - idx <= Len(list)
         THEN [ok |-> TRUE, v |-> list[Len(list) + idx + 1]]
         ELSE [ok |-> FALSE, v |-> <<>>]

\* re.sub('\[[0-9]+\] ', '', footnote): every marker that a space follows is
\* removed together with the space, wherever it stands in the footnote.
RECURSIVE StripMarkers(_)
StripMarkers(s) ==
    IF Len(s) < 2 THEN s
    ELSE IF IsMarker(s[1]) /\ s[2] = Space
         THEN StripMarkers(SubSeq(s, 3, Len(s)))
         ELSE <<s[1]>> \o StripMarkers(Tail(s))

\* re.sub(pattern, repl, string) with count = 1: only the first match is rewritten.
RECURSIVE SubFirst(_, _, _)
SubFirst(s, tok, repl) ==
    IF s = <<>> THEN <<>>
    ELSE IF s[1] = tok THEN repl \o Tail(s)
         ELSE <<s[1]>> \o SubFirst(Tail(s), tok, repl)

\* re.sub(pattern, repl, string): every match of the one-token pattern is
\* rewritten, and the text written is not scanned again.
RECURSIVE Sub(_, _, _)
Sub(s, tok, repl) ==
    IF s = <<>> THEN <<>>
    ELSE (IF s[1] = tok THEN repl ELSE <<s[1]>>) \o Sub(Tail(s), tok, repl)

\* set(re.findall('\[[0-9]+\]', paragraph))
MarkersFound(p) == {t \in Range(p) : IsMarker(t)}

\* list(set(...)): the set in some order; the order of a set of strings is the
\* interpreter's (it changes with the hash seed).
Orders(S) ==
    {o \in [1..Cardinality(S) -> S] : \A i, j \in DOMAIN o : i # j => o[i] # o[j]}

\* The replacement of line 174: \\footnote, the marker matched (group 1), and
\* the footnote text without its markers in braces.
Directive(marker, footnote) ==
    <<FootnoteDirective, marker, LBrace>> \o StripMarkers(footnote) \o <<RBrace>>

\* One turn of the loop of lines 171-175 for the marker found: the footnote is
\* looked up (line 174 indexes self.footnotes before re.sub runs), then the
\* marker is rewritten.
SpliceOne(p, marker, fns) ==
    LET looked == ListIndex(fns, marker.n - 1)
    IN  IF looked.ok
        THEN [ok |-> TRUE, v |-> Sub(p, marker, Directive(marker, looked.v))]
        ELSE [ok |-> FALSE, v |-> p]

\* The whole loop, for the markers in the order given.
RECURSIVE SpliceAll(_, _, _)
SpliceAll(p, order, fns) ==
    IF order = <<>> THEN [ok |-> TRUE, v |-> p]
    ELSE LET one == SpliceOne(p, Head(order), fns)
         IN  IF one.ok THEN SpliceAll(one.v, Tail(order), fns) ELSE one

\* The inputs: a paragraph of text and markers [0] .. [MaxFootnotes + 1], and a
\* footnote list in which footnote i is "[i] " and a body: its own text, or its
\* text and a reference [i+1] to the next footnote, or its text and a reference
\* [i] to itself.
ParTokens == {Text(0)} \cup {Marker(n) : n \in 0..(MaxFootnotes + 1)}

Bodies(i) ==
    { <<Text(i)>>, <<Text(i), Marker(i + 1)>>, <<Text(i), Marker(i)>> }

FootnoteLists ==
    UNION {{[i \in 1..k |-> <<Marker(i), Space>> \o b[i]] :
                b \in {f \in [1..k -> UNION {Bodies(i) : i \in 1..k}] :
                          \A i \in 1..k : f[i] \in Bodies(i)}} :
           k \in 0..MaxFootnotes}

FootInit ==
    /\ footnotes \in FootnoteLists
    /\ fin \in SeqUpTo(ParTokens, MaxParLen)
    /\ paragraph = fin
    /\ footnotes_found = <<>>
    /\ fi = 1
    /\ fpc = "call"
    /\ RomanIdle
    /\ DropIdle
    /\ MainIdle

\* Lines 169-170: without a marker the paragraph is returned as it is; with
\* markers the distinct ones are listed.
FindFootnotes ==
    /\ fpc = "call"
    /\ IF MarkersFound(paragraph) = {}
       THEN /\ fpc' = "returned"
            /\ UNCHANGED footnotes_found
       ELSE /\ \E o \in Orders(MarkersFound(paragraph)) : footnotes_found' = o
            /\ fpc' = "loop"
    /\ UNCHANGED <<footnotes, fin, paragraph, fi, romanVars, dropVars, mainVars>>

\* Lines 171-176: one turn of the loop; the last turn returns the paragraph, a
\* failed lookup leaves the function with IndexError.
SpliceFootnote ==
    /\ fpc = "loop"
    /\ LET one == SpliceOne(paragraph, footnotes_found[fi], footnotes)
       IN  IF one.ok
           THEN /\ paragraph' = one.v
                /\ fi' = fi + 1
                /\ fpc' = IF fi = Len(footnotes_found) THEN "returned" ELSE "loop"
           ELSE /\ fpc' = "IndexError"
                /\ UNCHANGED <<paragraph, fi>>
    /\ UNCHANGED <<footnotes, fin, footnotes_found, romanVars, dropVars, mainVars>>

FootNext == FindFootnotes \/ SpliceFootnote

SpecFootnotes == FootInit /\ [][FootNext]_vars

---------------------------------------------------------------------------
(* Claims about add_footnotes_to_text, checked under SpecFootnotes *)

\* What stands outside every pair of braces: a directive \\footnote[n]{body}
\* shows as its first two tokens, the text around it as it is.
RECURSIVE TopView(_, _)
TopView(s, depth) ==
    IF s = <<>> THEN <<>>
    ELSE IF s[1] = LBrace THEN TopView(Tail(s), depth + 1)
    ELSE IF s[1] = RBrace THEN TopView(Tail(s), depth - 1)
    ELSE IF depth = 0 THEN <<s[1]>> \o TopView(Tail(s), depth)
    ELSE TopView(Tail(s), depth)

\* The paragraph p with a directive at every marker
AllExpanded(p) ==
    Concat([i \in DOMAIN p |->
               IF IsMarker(p[i]) THEN <<FootnoteDirective, p[i]>> ELSE <<p[i]>>])

\* The paragraph p with a directive at the first occurrence of each marker only
FirstExpanded(p) ==
    Concat([i \in DOMAIN p |->
               IF IsMarker(p[i]) /\ \A j \in 1..(i - 1) : p[j] # p[i]
               THEN <<FootnoteDirective, p[i]>> ELSE <<p[i]>>])

HasOutOfRangeMarker == \E t \in MarkersFound(fin) : t.n > Len(footnotes)

MarkersInRange == \A t \in MarkersFound(fin) : t.n \in 1..Len(footnotes)

HasRepeatedMarker ==
    \E i, j \in DOMAIN fin : i < j /\ IsMarker(fin[i]) /\ fin[i] = fin[j]

\* C4: a paragraph with a marker [n], n greater than the number of footnotes,
\* never comes back from add_footnotes_to_text: the call ends in IndexError (the
\* index-out-of-range kind), whatever the other markers and their order.
C4_OutOfRangeFailsFast ==
    HasOutOfRangeMarker =>
        /\ fpc # "returned"
        /\ fpc = "loop" => fi \in DOMAIN footnotes_found
        /\ (fpc = "loop" /\ footnotes_found[fi].n > Len(footnotes)
               => ~SpliceOne(paragraph, footnotes_found[fi], footnotes).ok)

C4_Witness ==
    /\ fpc = "IndexError"
    /\ Len(footnotes) = 2
    /\ Marker(3) \in MarkersFound(fin)
    /\ fi > 1

\* C5: every directive of the paragraph returned carries a marker [n] that is a
\* position 1..len of the footnote list, and its body is the text of the
\* footnote at that position (not of a footnote at another position).
C5_MarkerIsPosition ==
    fpc = "returned" =>
        \A i \in DOMAIN paragraph :
            paragraph[i] = FootnoteDirective =>
                /\ paragraph[i + 1].n \in 1..Len(footnotes)
                /\ \E j \in (i + 3)..Len(paragraph) :
                      /\ paragraph[j] = Text(paragraph[i + 1].n)
                      /\ \A l \in (i + 3)..(j - 1) : paragraph[l].k # "text"

\* C6 as stated: of an in-range marker that stands several times in the paragraph
\* only the first occurrence becomes a directive, the later ones stay bare markers.
C6_OnlyFirstOccurrence ==
    (fpc = "returned" /\ MarkersInRange) =>
        TopView(paragraph, 0) = FirstExpanded(fin)

\* C6 as amended: every occurrence of every marker of the paragraph becomes a
\* directive carrying that marker, and the text around the markers is unchanged.
C6_EveryOccurrence ==
    fpc = "returned" => TopView(paragraph, 0) = AllExpanded(fin)

C6_Witness ==
    /\ fpc = "returned"
    /\ HasRepeatedMarker
    /\ MarkersInRange

\* C10: the paragraph returned is the same for every order in which the distinct
\* markers are taken.
C10_OrderIndependent ==
    fpc = "returned" =>
        \A o \in Orders(MarkersFound(fin)) :
            SpliceAll(fin, o, footnotes) = [ok |-> TRUE, v |-> paragraph]

---------------------------------------------------------------------------
(* Chapter.get_text_from_soup, lines 155-161: strip, fix_spacing_around_verse_numbers
   and do_dropcaps.  Here a paragraph is a sequence of characters. *)

Nbsp == "nbsp"                           \* the character \xa0
Digits == {"1", "2", "3"}
Letters == {"E", "t"}                    \* [A-Za-z]
Lettrine == "\\lettrine[lines="

\* str.strip(): the white space at both ends goes (\xa0 is white space)
RECURSIVE StripLeft(_)
StripLeft(s) ==
    IF s # <<>> /\ s[1] \in {" ", Nbsp} THEN StripLeft(Tail(s)) ELSE s

RECURSIVE StripRight(_)
StripRight(s) ==
    IF s # <<>> /\ s[Len(s)] \in {" ", Nbsp}
    THEN StripRight(SubSeq(s, 1, Len(s) - 1)) ELSE s

Strip(s) == StripRight(StripLeft(s))

\* re.sub('([0-9]+)  ', '\\1~', paragraph): the two spaces after a run of digits
\* become one "~"
RECURSIVE VerseSpaces(_)
VerseSpaces(s) ==
    IF s = <<>> THEN <<>>
    ELSE IF s[1] \in Digits /\ Len(s) >= 3 /\ s[2] = " " /\ s[3] = " "
         THEN <<s[1], "~">> \o VerseSpaces(SubSeq(s, 4, Len(s)))
         ELSE <<s[1]>> \o VerseSpaces(Tail(s))

\* re.sub('\\xa0', '~', paragraph)
NbspToTilde(s) == [i \in DOMAIN s |-> IF s[i] = Nbsp THEN "~" ELSE s[i]]

\* re.sub('  ', ' ', paragraph): each pair of spaces, left to right, becomes one
RECURSIVE DoubleSpaces(_)
DoubleSpaces(s) ==
    IF Len(s) < 2 THEN s
    ELSE IF s[1] = " " /\ s[2] = " "
         THEN <<" ">> \o DoubleSpaces(SubSeq(s, 3, Len(s)))
         ELSE <<s[1]>> \o DoubleSpaces(Tail(s))

fix_spacing_around_verse_numbers(s) == DoubleSpaces(NbspToTilde(VerseSpaces(s)))

\* The end of the run of letters that starts at position i of s (i - 1 if none)
RECURSIVE LetterRunEnd(_, _)
LetterRunEnd(s, i) ==
    IF i <= Len(s) /\ s[i] \in Letters THEN LetterRunEnd(s, i + 1) ELSE i - 1

\* Whether '^1~([A-Za-z]{1})([A-Za-z]*) ' matches: "1~", a letter, the letters
\* after it, and then a space.
DropcapMatches(s) ==
    /\ Len(s) >= 4
    /\ s[1] = "1" /\ s[2] = "~" /\ s[3] \in Letters
    /\ LetterRunEnd(s, 3) < Len(s)
    /\ s[LetterRunEnd(s, 3) + 1] = " "

\* The match rewritten to '\lettrine[lines=N]{\1}{\2} '
DropcapRewrite(s, lines) ==
    LET e == LetterRunEnd(s, 3)
    IN  <<Lettrine, lines, "]", "{", s[3], "}", "{">> \o SubSeq(s, 4, e)
            \o <<"}", " ">> \o SubSeq(s, e + 2, Len(s))

\* do_dropcaps: list_of_paragraphs[0] is rewritten where the pattern matches; an
\* empty list has no element 0 (IndexError).
do_dropcaps(list_of_paragraphs, lines) ==
    IF list_of_paragraphs = <<>> THEN [ok |-> FALSE, v |-> <<>>]
    ELSE [ok |-> TRUE,
          v  |-> [list_of_paragraphs EXCEPT
                     ![1] = IF DropcapMatches(@) THEN DropcapRewrite(@, lines) ELSE @]]

\* The inputs: the text of the first cell of the page in one language, any string
\* of at most MaxFirstLen characters, and the cells after it.
PageChars == {"1", " ", Nbsp, "E", "t", ","}

LaterCells ==
    { <<>>, << <<"1", Nbsp, "E", "t", " ", "E">> >>,
      << <<"2", " ", " ", "t", ",">>, <<"1", " ", " ", "t", " ", "t">> >> }

DropInit ==
    /\ number \in 1..MaxChapters
    /\ paragraphs \in {<<>>} \cup
           {<<first>> \o later : first \in SeqUpTo(PageChars, MaxFirstLen),
                                 later \in LaterCells}
    /\ dnorm = <<>>
    /\ dpc = "call"
    /\ RomanIdle
    /\ FootIdle
    /\ MainIdle

\* Lines 156-157: every cell's text is stripped and its spacing normalised
NormalizeParagraphs ==
    /\ dpc = "call"
    /\ paragraphs' = [i \in DOMAIN paragraphs |->
                         fix_spacing_around_verse_numbers(Strip(paragraphs[i]))]
    /\ dnorm' = paragraphs'
    /\ dpc' = "normalized"
    /\ UNCHANGED <<number, romanVars, footVars, mainVars>>

\* Lines 158-161: do_dropcaps with lines=3 for chapter 1, with the default
\* lines=2 for every other chapter
DoDropcaps ==
    /\ dpc = "normalized"
    /\ LET done == do_dropcaps(paragraphs, IF number = 1 THEN "3" ELSE "2")
       IN  IF done.ok
           THEN /\ paragraphs' = done.v
                /\ dpc' = "dropcapped"
           ELSE /\ dpc' = "IndexError"
                /\ UNCHANGED paragraphs
    /\ UNCHANGED <<number, dnorm, romanVars, footVars, mainVars>>

DropNext == NormalizeParagraphs \/ DoDropcaps

SpecDropcaps == DropInit /\ [][DropNext]_vars

---------------------------------------------------------------------------
(* Claims about do_dropcaps, checked under SpecDropcaps *)

\* C7: when the first normalised paragraph begins with "1~" and a word, the
\* first paragraph returned is the large-initial directive with the word's first
\* letter and the rest of the word, lines = 3 exactly for chapter 1 and 2
\* otherwise, followed by the text after the word as it was; every other
\* paragraph is as it was.
C7_DropcapFirstWord ==
    (/\ dpc = "dropcapped"
     /\ Len(dnorm[1]) >= 3
     /\ dnorm[1][1] = "1" /\ dnorm[1][2] = "~" /\ dnorm[1][3] \in Letters) =>
        LET first == dnorm[1]
            e     == LetterRunEnd(first, 3)
        IN  /\ paragraphs[1] =
                   <<Lettrine, IF number = 1 THEN "3" ELSE "2", "]", "{",
                     first[3], "}", "{">> \o SubSeq(first, 4, e) \o <<"}">>
                       \o SubSeq(first, e + 1, Len(first))
            /\ \A i \in 2..Len(dnorm) : paragraphs[i] = dnorm[i]

---------------------------------------------------------------------------
(* number_to_roman *)

\* "c" repeated k times: for i in range(k): roman = roman + c  (no turn for k <= 0)
Repeat(c, k) == [i \in 1..k |-> c]

\* RomanDigit without its "== 4" branch: 4 comes out as four ones.
RomanDigitNoFour(d, one, five, ten) ==
    IF d = 9 THEN <<one, ten>>
    ELSE IF d >= 5 THEN <<five>> \o Repeat(one, d - 5)
    ELSE Repeat(one, d)

\* One decimal digit written with the letters one, five, ten of its rank:
\* the if/elif/else chains of lines 24-34, 38-48 and 51-61.
RomanDigit(d, one, five, ten) ==
    IF d = 9 THEN <<one, ten>>
    ELSE IF d >= 5 THEN <<five>> \o Repeat(one, d - 5)
    ELSE IF d = 4 THEN <<one, five>>
    ELSE Repeat(one, d)

number_to_roman(n) ==
    LET thousands == n \div 1000
        n1        == n - thousands * 1000
        hundreds  == n1 \div 100
        n2        == n1 - hundreds * 100
        tens      == n2 \div 10
        n3        == n2 - tens * 10
    IN  Repeat("m", thousands)
          \o RomanDigit(hundreds, "c", "d", "m")
          \o RomanDigit(tens, "x", "l", "c")
          \o RomanDigit(n3, "i", "v", "x")

RomanInit ==
    /\ num \in (0 - MaxNeg)..MaxNum
    /\ roman = <<>>
    /\ rpc = "call"
    /\ FootIdle
    /\ DropIdle
    /\ MainIdle

\* The call: the function has no raise statement, it returns for every integer.
FormatRoman ==
    /\ rpc = "call"
    /\ roman' = number_to_roman(num)
    /\ rpc' = "returned"
    /\ UNCHANGED <<num, footVars, dropVars, mainVars>>

RomanNext == FormatRoman

SpecRoman == RomanInit /\ [][RomanNext]_vars

---------------------------------------------------------------------------
(* Claims about number_to_roman, checked under SpecRoman *)

RomanValue(ch) ==
    CASE ch = "i" -> 1 [] ch = "v" -> 5 [] ch = "x" -> 10 [] ch = "l" -> 50
      [] ch = "c" -> 100 [] ch = "d" -> 500 [] ch = "m" -> 1000

\* The standard subtractive reading of a numeral: a letter smaller than the
\* letter after it is subtracted, every other letter is added.
RECURSIVE RomanToNumber(_)
RomanToNumber(s) ==
    IF s = <<>> THEN 0
    ELSE IF Len(s) >= 2 /\ RomanValue(s[1]) < RomanValue(s[2])
         THEN RomanToNumber(Tail(s)) - RomanValue(s[1])
         ELSE RomanToNumber(Tail(s)) + RomanValue(s[1])

\* The standard numeral of n, by the greedy table 1000, 900, 500, ..., 4, 1.
NumeralTable ==
    << <<1000, <<"m">> >>, <<900, <<"c", "m">> >>, <<500, <<"d">> >>,
       <<400, <<"c", "d">> >>, <<100, <<"c">> >>, <<90, <<"x", "c">> >>,
       <<50, <<"l">> >>, <<40, <<"x", "l">> >>, <<10, <<"x">> >>,
       <<9, <<"i", "x">> >>, <<5, <<"v">> >>, <<4, <<"i", "v">> >>,
       <<1, <<"i">> >> >>

RECURSIVE StandardNumeral(_, _)
StandardNumeral(n, k) ==
    IF n <= 0 \/ k > Len(NumeralTable) THEN <<>>
    ELSE IF n >= NumeralTable[k][1]
         THEN NumeralTable[k][2] \o StandardNumeral(n - NumeralTable[k][1], k)
         ELSE StandardNumeral(n, k + 1)

LiteralCases ==
    << <<1, <<"i">> >>, <<4, <<"i", "v">> >>, <<9, <<"i", "x">> >>,
       <<14, <<"x", "i", "v">> >>, <<40, <<"x", "l">> >>, <<90, <<"x", "c">> >>,
       <<444, <<"c", "d", "x", "l", "i", "v">> >>,
       <<1994, <<"m", "c", "m", "x", "c", "i", "v">> >> >>

\* C2: for every positive n the string number_to_roman returns is the standard
\* lowercase subtractive numeral of n, reading it back by the subtractive rules
\* gives n again, and the literal cases 1, 4, 9, 14, 40, 90, 444, 1994 come out
\* as i, iv, ix, xiv, xl, xc, cdxliv, mcmxciv.
C2_RomanRoundTrip ==
    (rpc = "returned" /\ num >= 1) =>
        /\ roman = StandardNumeral(num, 1)
        /\ RomanToNumber(roman) = num
        /\ \A i \in 1..Len(LiteralCases) :
              num = LiteralCases[i][1] => roman = LiteralCases[i][2]

C2_Witness ==
    /\ rpc = "returned"
    /\ num = 1994
    /\ roman = <<"m", "c", "m", "x", "c", "i", "v">>

\* C3: for every n <= 0 the call ends in an InvalidArgument error and never
\* returns a string.
C3_RejectsNonPositive ==
    num <= 0 => rpc \in {"call", "InvalidArgument"}

---------------------------------------------------------------------------
(* The template compositor: Chapter.insert_into_template and
   Chapter.insert_just_english_into_template.  A template is a sequence of
   tokens: its own text, the anchors, and what has been inserted. *)

TemplateText(i) == Tok("template text", 0, i)
AnchorLatin     == Tok("\\StartOfLatin\n\n", 0, 0)
AnchorEnglish   == Tok("\\StartOfEnglish\n\n", 0, 0)
AnchorChapter   == Tok("\\chapter*{}\n\n", 0, 0)
TitledAnchor    == Tok("\\chapter*{title}\n\n", 0, 0)
Separator       == Tok("\n\\pend\\pstart\n", 0, 0)
Newline         == Tok("\n", 0, 0)
HeadOpen        == Tok("\\begin{large}\\begin{center}", 0, 0)
HeadClose       == Tok("\\end{center}\\end{large}\n", 0, 0)
ChapterHeadOpen  == Tok("\\begin{large}\\begin{center}\\textsc{Chapter ", 0, 0)
ChapterHeadClose == Tok("}\\end{center}\\end{large}\n", 0, 0)
ArabicNumber(n) == Tok("str(number)", 0, n)
LatinPar(ch, j)   == Tok("latin paragraph", ch, j)
EnglishPar(ch, j) == Tok("english paragraph", ch, j)

\* re.sub('(anchor)', '\\1' + text, template): text is put right after every
\* occurrence of the anchor
InsertAfter(tpl, anchor, text) == Sub(tpl, anchor, <<anchor>> \o text)

\* The heading of lines 235 and 238: the chapter number in Arabic digits
Heading(n) == <<HeadOpen, ArabicNumber(n), HeadClose>>

\* The heading of line 249: "Chapter " and number_to_roman(self.number)
ChapterHeading(n) ==
    LET r == number_to_roman(n)
    IN  <<ChapterHeadOpen>> \o [i \in DOMAIN r |-> Tok(r[i], 0, 0)]
            \o <<ChapterHeadClose>>

\* The loop of lines 227-233 from turn i on: the Latin paragraph -1-i and the
\* English paragraph -1-i are put after their anchors; the loop runs over the
\* Latin list, and an English list that is shorter has no element -1-i.
RECURSIVE InsertPairs(_, _, _)
InsertPairs(chapter, tpl, i) ==
    IF i >= Len(chapter.latin_pars) THEN [ok |-> TRUE, v |-> tpl]
    ELSE LET l == ListIndex(chapter.latin_pars, 0 - 1 - i)
             e == ListIndex(chapter.english_pars, 0 - 1 - i)
         IN  IF l.ok /\ e.ok
             THEN InsertPairs(chapter,
                      InsertAfter(InsertAfter(tpl, AnchorLatin, <<Separator, l.v>>),
                                  AnchorEnglish, <<Separator, e.v>>),
                      i + 1)
             ELSE [ok |-> FALSE, v |-> tpl]

insert_into_template(chapter, tpl) ==
    LET pairs == InsertPairs(chapter, tpl, 0)
    IN  IF pairs.ok
        THEN [ok |-> TRUE,
              v  |-> InsertAfter(
                         InsertAfter(pairs.v, AnchorLatin, Heading(chapter.number)),
                         AnchorEnglish, Heading(chapter.number))]
        ELSE pairs

\* The loop of lines 244-247 from turn i on
RECURSIVE InsertEnglish(_, _, _)
InsertEnglish(chapter, tpl, i) ==
    IF i >= Len(chapter.english_pars) THEN tpl
    ELSE InsertEnglish(chapter,
             InsertAfter(tpl, AnchorChapter,
                 <<ListIndex(chapter.english_pars, 0 - 1 - i).v, Newline>>),
             i + 1)

insert_just_english_into_template(chapter, tpl) ==
    [ok |-> TRUE,
     v  |-> InsertAfter(InsertEnglish(chapter, tpl, 0), AnchorChapter,
                        ChapterHeading(chapter.number))]

InsertChapterInto(how, chapter, tpl) ==
    IF how = "bilingual" THEN insert_into_template(chapter, tpl)
    ELSE insert_just_english_into_template(chapter, tpl)

\* A Chapter with nl Latin and ne English paragraphs
NewChapter(n, nl, ne) ==
    [number       |-> n,
     latin_pars   |-> [j \in 1..nl |-> LatinPar(n, j)],
     english_pars |-> [j \in 1..ne |-> EnglishPar(n, j)]]

Templates(how) ==
    IF how = "bilingual"
    THEN { <<TemplateText(1), AnchorLatin, TemplateText(2), AnchorEnglish,
             TemplateText(3)>>,
           <<AnchorEnglish, AnchorLatin>> }
    ELSE { <<TemplateText(1), AnchorChapter, TemplateText(2)>>,
           <<AnchorChapter, TemplateText(1), AnchorChapter>> }

---------------------------------------------------------------------------
(* The top-level script, Book.__init__ and Chapter.__init__ *)

\* What a GET gives when requests.get returns: the status, and what the parsed
\* body holds: an h1, the links of class biblechapter, the ul of class bibleul,
\* the cells of each language, and whether every marker of the cells is within
\* the footnote list.
Pages ==
    [status : {200, 404}, h1 : BOOLEAN, links : 0..(MaxChapters - 1),
     ul : BOOLEAN, latin : 0..MaxPars, english : 0..MaxPars, in_range : BOOLEAN]

Raise(kind) ==
    /\ pc' = "error"
    /\ error' = kind

MainInit ==
    /\ pc = "book"
    /\ error = "none"
    /\ number_of_chapters = 0
    /\ chapters = <<>>
    /\ variant = "english"
    /\ template = <<>>
    /\ output = <<>>
    /\ ci = 0
    /\ bad_status = FALSE
    /\ file = [exists |-> FALSE, text |-> <<>>]
    /\ RomanIdle
    /\ FootIdle
    /\ DropIdle

\* Book.__init__, lines 88-95: the start page is fetched (webpage_to_soup does
\* not look at the status), the chapter links are counted, the title is read
\* from the first h1.
FetchStartPage ==
    /\ pc = "book"
    /\ \/ /\ Raise("ConnectionError")
          /\ UNCHANGED <<number_of_chapters, bad_status>>
       \/ \E page \in Pages :
             /\ bad_status' = (bad_status \/ page.status # 200)
             /\ IF page.h1
                THEN /\ number_of_chapters' = page.links + 1
                     /\ pc' = "create_chapters"
                     /\ UNCHANGED error
                ELSE /\ Raise("IndexError")
                     /\ UNCHANGED number_of_chapters
    /\ UNCHANGED <<chapters, variant, template, output, ci, file>>
    /\ UNCHANGED <<romanVars, footVars, dropVars>>

\* One turn of Book.create_chapters, lines 100-105: Chapter.__init__ fetches the
\* chapter's page (chapter 1 fetches the start page again), reads the footnotes
\* (footnote_ul[0]) and the Latin and the English paragraphs (do_dropcaps takes
\* list_of_paragraphs[0]; add_footnotes_to_text indexes the footnotes).
CreateChapter ==
    /\ pc = "create_chapters"
    /\ \/ /\ Raise("ConnectionError")
          /\ UNCHANGED <<chapters, bad_status>>
       \/ \E page \in Pages :
             /\ bad_status' = (bad_status \/ page.status # 200)
             /\ IF page.ul /\ page.latin > 0 /\ page.english > 0 /\ page.in_range
                THEN /\ chapters' = Append(chapters,
                            NewChapter(Len(chapters) + 1, page.latin, page.english))
                     /\ pc' = IF Len(chapters) + 1 = number_of_chapters
                              THEN "read_templates" ELSE "create_chapters"
                     /\ UNCHANGED error
                ELSE /\ Raise("IndexError")
                     /\ UNCHANGED chapters
    /\ UNCHANGED <<number_of_chapters, variant, template, output, ci, file>>
    /\ UNCHANGED <<romanVars, footVars, dropVars>>

\* Lines 267-270: the templates are read, output starts as the English one
ReadTemplates ==
    /\ pc = "read_templates"
    /\ \/ /\ Raise("OSError")
          /\ UNCHANGED <<template, output>>
       \/ /\ template' \in Templates(variant)
          /\ output' = template'
          /\ pc' = "compose"
          /\ UNCHANGED error
    /\ UNCHANGED <<number_of_chapters, chapters, variant, ci, bad_status, file>>
    /\ UNCHANGED <<romanVars, footVars, dropVars>>

\* One turn of the loop of lines 271-272: chapters[-1-i] is inserted into output
InsertChapter ==
    /\ pc = "compose"
    /\ LET done == InsertChapterInto(variant, chapters[Len(chapters) - ci], output)
       IN  IF done.ok
           THEN /\ output' = done.v
                /\ ci' = ci + 1
                /\ pc' = IF ci + 1 = Len(chapters) THEN "add_title" ELSE "compose"
                /\ UNCHANGED error
           ELSE /\ Raise("IndexError")
                /\ UNCHANGED <<output, ci>>
    /\ UNCHANGED <<number_of_chapters, chapters, variant, template, bad_status, file>>
    /\ UNCHANGED <<romanVars, footVars, dropVars>>

\* Line 275: the title of the book is written into every 'chapter*{'
AddTitle ==
    /\ pc = "add_title"
    /\ output' = Sub(output, AnchorChapter, <<TitledAnchor>>)
    /\ pc' = "write"
    /\ UNCHANGED <<error, number_of_chapters, chapters, variant, template, ci,
                   bad_status, file>>
    /\ UNCHANGED <<romanVars, footVars, dropVars>>

\* Line 277: the output file is written
WriteOutput ==
    /\ pc = "write"
    /\ file' = [exists |-> TRUE, text |-> output]
    /\ pc' = "written"
    /\ UNCHANGED <<error, number_of_chapters, chapters, variant, template, output,
                   ci, bad_status>>
    /\ UNCHANGED <<romanVars, footVars, dropVars>>

Next ==
    \/ FetchStartPage
    \/ CreateChapter
    \/ ReadTemplates
    \/ InsertChapter
    \/ AddTitle
    \/ WriteOutput

Spec == MainInit /\ [][Next]_vars

\* The compositor alone: the chapters of a book and a template, and the loop of
\* lines 271-272 run with either method.
ChapterLists ==
    UNION {{[c \in 1..n |-> NewChapter(c, nl[c], ne[c])] :
                nl \in [1..n -> 1..MaxPars], ne \in [1..n -> 1..MaxPars]} :
           n \in 1..MaxChapters}

ComposeInit ==
    /\ pc = "compose"
    /\ error = "none"
    /\ chapters \in ChapterLists
    /\ number_of_chapters = Len(chapters)
    /\ variant \in {"english", "bilingual"}
    /\ template \in Templates(variant)
    /\ output = template
    /\ ci = 0
    /\ bad_status = FALSE
    /\ file = [exists |-> FALSE, text |-> <<>>]
    /\ RomanIdle
    /\ FootIdle
    /\ DropIdle

ComposeNext == InsertChapter

SpecCompose == ComposeInit /\ [][ComposeNext]_vars

---------------------------------------------------------------------------
(* Claims about the compositor, checked under SpecCompose, and about the run
   of the script, checked under Spec *)

Count(tok, s) == Cardinality({i \in DOMAIN s : s[i] = tok})

\* What the claim expects after an anchor: for the chapters in ascending order,
\* the heading of the chapter and its paragraphs in source order
ExpectedLatin ==
    Concat([c \in DOMAIN chapters |->
        Heading(c) \o Concat([j \in DOMAIN chapters[c].latin_pars |->
                                 <<Separator, chapters[c].latin_pars[j]>>])])

ExpectedEnglish ==
    Concat([c \in DOMAIN chapters |->
        Heading(c) \o Concat([j \in DOMAIN chapters[c].english_pars |->
                                 <<Separator, chapters[c].english_pars[j]>>])])

ExpectedChapters ==
    Concat([c \in DOMAIN chapters |->
        ChapterHeading(c) \o Concat([j \in DOMAIN chapters[c].english_pars |->
                                        <<chapters[c].english_pars[j], Newline>>])])

\* C1: the loop over the chapters in reverse order never fails, and when it has
\* run the text right after each anchor is, chapter by chapter in ascending
\* order, the chapter's heading and its paragraphs in source order.
C1_ChaptersInOrder ==
    /\ pc # "error"
    /\ pc = "add_title" =>
          output = IF variant = "bilingual"
                   THEN InsertAfter(InsertAfter(template, AnchorLatin, ExpectedLatin),
                                    AnchorEnglish, ExpectedEnglish)
                   ELSE InsertAfter(template, AnchorChapter, ExpectedChapters)

\* C9: insert_into_template does not fail, and of every chapter inserted each
\* Latin paragraph stands once after each Latin anchor and each English
\* paragraph once after each English anchor.
C9_NoParagraphLost ==
    variant = "bilingual" =>
        /\ pc # "error"
        /\ \A c \in (Len(chapters) - ci + 1)..Len(chapters) :
              /\ \A j \in DOMAIN chapters[c].latin_pars :
                    Count(chapters[c].latin_pars[j], output)
                        = Count(AnchorLatin, template)
              /\ \A j \in DOMAIN chapters[c].english_pars :
                    Count(chapters[c].english_pars[j], output)
                        = Count(AnchorEnglish, template)

\* C8: a run in which a step has failed (an exception, or a response with a
\* non-success status) writes no output file, and the file is written only when
\* every chapter of the book has been fetched and inserted.
C8_AbortWithoutOutput ==
    /\ (pc = "error" \/ bad_status) => ~file.exists
    /\ file.exists =>
          /\ Len(chapters) = number_of_chapters
          /\ ci = Len(chapters)

===========================================================================
